---- MODULE Spec2Model ----
(***************************************************************************)
(* Notification scheduling engine of life-reveal.                          *)
(*                                                                         *)
(* The model follows src/src/services/notifications/notificationTypes.ts   *)
(* (class NotificationScheduler), notificationService.ts, the settings     *)
(* store localSettings.ts and the two callers that rebuild the schedule    *)
(* after a settings write: hooks/useNotificationSettings.ts and            *)
(* screens/NotificationSettingsScreen.tsx.                                 *)
(*                                                                         *)
(* Every async method is a task.  A task runs from one awaited platform    *)
(* call to the next in one step: its pc names the call it is suspended on. *)
(* The platform (expo-notifications) is the set "scheduled" of pending     *)
(* notification requests; a call takes effect when it returns.             *)
(* Times "HH:mm" are pairs <<HH, mm>>: split(':').map(Number).             *)
(***************************************************************************)
EXTENDS Integers, Sequences, FiniteSets, TLC

VARIABLES
    scheduled,                  \* platform: pending notification requests
    permission,                 \* platform: "undetermined" | "granted" | "denied"
    stored,                     \* AsyncStorage value under NOTIFICATION_SETTINGS
    scheduledNotificationIds,   \* scheduler: Map<string,string>, in insertion order
    hourlyNotificationIds,      \* scheduler: string[]
    tasks,                      \* the async calls in flight or last finished, per slot
    booted,                     \* some operation has been started
    failures,                   \* platform and storage calls that have failed so far
    hook,                       \* useNotificationSettings: React state and last render
    screen,                     \* NotificationSettingsScreen: React state and last render
    writes                      \* settings writes issued through the hook or the screen

vars == <<scheduled, permission, stored, scheduledNotificationIds,
          hourlyNotificationIds, tasks, booted, failures, hook, screen, writes>>

----------------------------------------------------------------------------
(* Bounds of the model *)

MaxTasks == 2       \* task slots: async calls that can be in flight together
MaxFail == 1        \* platform calls that may fail in one behaviour
MaxSnooze == 1      \* snoozed reminders that may be pending together
MaxWrites == 2      \* settings writes issued through the hook or the screen

(* Program constants *)

HoursPerDay == 24
MinutesPerHour == 60
BodyCount == 5
DefaultSnooze == 15

Slots == 1..MaxTasks
Hours == 0..(HoursPerDay - 1)

----------------------------------------------------------------------------
(* Settings: notificationTypes.ts, NotificationSettings *)

NoSettings == [none |-> TRUE]

DEFAULT_NOTIFICATION_SETTINGS ==
    [ hourlyNotificationsEnabled |-> TRUE,
      quietHours |-> [enabled |-> TRUE, startTime |-> <<22, 0>>, endTime |-> <<8, 0>>],
      morningLogEnabled |-> FALSE,
      morningLogTime |-> <<9, 0>>,
      eveningLogEnabled |-> FALSE,
      eveningLogTime |-> <<21, 0>>,
      weeklyReviewEnabled |-> TRUE,
      weeklyReviewDay |-> 0,
      weeklyReviewTime |-> <<19, 0>>,
      remindersEnabled |-> TRUE,
      allowSnooze |-> TRUE,
      snoozeDuration |-> DefaultSnooze ]

\* A settings value that differs from the default in the scheduling fields.
Cfg(hourly, quiet, morning, evening, weekly) ==
    [ DEFAULT_NOTIFICATION_SETTINGS EXCEPT
        !.hourlyNotificationsEnabled = hourly,
        !.quietHours = quiet,
        !.morningLogEnabled = morning,
        !.eveningLogEnabled = evening,
        !.weeklyReviewEnabled = weekly ]

Quiet(enabled, startTime, endTime) ==
    [enabled |-> enabled, startTime |-> startTime, endTime |-> endTime]

\* The settings values a caller passes to the scheduler.
SettingsPool ==
    { DEFAULT_NOTIFICATION_SETTINGS,
      Cfg(FALSE, Quiet(TRUE, <<22, 0>>, <<8, 0>>),   TRUE,  TRUE,  TRUE),
      Cfg(FALSE, Quiet(TRUE, <<22, 0>>, <<8, 0>>),   TRUE,  FALSE, FALSE),
      Cfg(FALSE, Quiet(TRUE, <<22, 0>>, <<8, 0>>),   FALSE, TRUE,  FALSE),
      Cfg(TRUE,  Quiet(TRUE, <<6, 0>>,  <<20, 0>>),  TRUE,  TRUE,  TRUE),
      Cfg(TRUE,  Quiet(FALSE, <<22, 0>>, <<8, 0>>),  FALSE, FALSE, FALSE),
      Cfg(TRUE,  Quiet(TRUE, <<22, 30>>, <<8, 30>>), FALSE, FALSE, FALSE) }

\* Wall-clock times (minutes since midnight) at which a pass may run.
Clocks == {3 * 60, 12 * 60}

\* What "new Date()" in isQuietHours can give during a pass with these
\* settings; -1 when the pass never reads the clock (the hourly loop does not
\* run, or isQuietHours returns before it reads it).
ClockReads(settings) ==
    IF settings.hourlyNotificationsEnabled /\ settings.quietHours.enabled THEN Clocks ELSE {-1}

\* Arguments of snoozeNotification.
SnoozeMinutes == {DefaultSnooze, 30}

----------------------------------------------------------------------------
(* Logical roles: the config.id of a notification *)

HourlyRole(hour) == <<"hourly-log", hour>>
MorningRole == <<"morning-log", -1>>
EveningRole == <<"evening-log", -1>>
WeeklyRole == <<"weekly-review", -1>>
SnoozedRole == <<"snoozed-log", -1>>

\* Roles whose platform calls may fail in the model.
FailableRoles == {HourlyRole(21), MorningRole, SnoozedRole}

----------------------------------------------------------------------------
(* Time-window evaluator: notificationTypes.ts, isQuietHours *)

isQuietHours_inclusiveEnd(currentMinutes, quietHours) ==
    IF ~quietHours.enabled THEN FALSE
    ELSE LET startMinutes == quietHours.startTime[1] * MinutesPerHour + quietHours.startTime[2]
             endMinutes == quietHours.endTime[1] * MinutesPerHour + quietHours.endTime[2]
         IN  IF startMinutes > endMinutes
             THEN currentMinutes >= startMinutes \/ currentMinutes <= endMinutes
             ELSE currentMinutes >= startMinutes /\ currentMinutes <= endMinutes

isQuietHours(currentMinutes, quietHours) ==
    IF ~quietHours.enabled THEN FALSE
    ELSE LET startMinutes == quietHours.startTime[1] * MinutesPerHour + quietHours.startTime[2]
             endMinutes == quietHours.endTime[1] * MinutesPerHour + quietHours.endTime[2]
         IN  IF startMinutes > endMinutes
             THEN currentMinutes >= startMinutes \/ currentMinutes < endMinutes
             ELSE currentMinutes >= startMinutes /\ currentMinutes < endMinutes

skipHour_equalSpansDay(hour, now, quietHours) ==
    /\ quietHours.enabled
    /\ LET quietStart == quietHours.startTime[1]
           quietEnd == quietHours.endTime[1]
       IN  IF quietStart >= quietEnd
           THEN hour >= quietStart \/ hour < quietEnd
           ELSE hour >= quietStart /\ hour < quietEnd

\* The hourly loop's "continue" test for one hour.  The quiet-hours test is
\* made on the clock (new Date()), not on testDate; the hour is compared with
\* the hour parts of the window only inside it.
skipHour(hour, now, quietHours) ==
    /\ isQuietHours(now, quietHours)
    /\ LET quietStart == quietHours.startTime[1]
           quietEnd == quietHours.endTime[1]
       IN  IF quietStart > quietEnd
           THEN hour >= quietStart \/ hour < quietEnd
           ELSE hour >= quietStart /\ hour < quietEnd

RECURSIVE hoursFrom(_, _, _)
hoursFrom(hour, now, quietHours) ==
    IF hour >= HoursPerDay THEN <<>>
    ELSE IF skipHour(hour, now, quietHours)
         THEN hoursFrom(hour + 1, now, quietHours)
         ELSE <<hour>> \o hoursFrom(hour + 1, now, quietHours)

\* The hours for which scheduleHourlyNotifications calls
\* scheduleHourlyNotification, in loop order.
hoursToSchedule(now, quietHours) == hoursFrom(0, now, quietHours)

----------------------------------------------------------------------------
(* Trigger content generator *)

getHourlyNotificationTitle_eveningUntil22(hour) ==
    IF hour >= 5 /\ hour < 12 THEN "Morning Check-in"
    ELSE IF hour >= 12 /\ hour < 17 THEN "Afternoon Pulse"
    ELSE IF hour >= 17 /\ hour < 22 THEN "Evening Reflection"
    ELSE IF hour >= 22 \/ hour < 5 THEN "Night Review"
    ELSE "Hourly Check-in"

\* The titles without their leading emoji.
getHourlyNotificationTitle(hour) ==
    IF hour >= 5 /\ hour < 12 THEN "Morning Check-in"
    ELSE IF hour >= 12 /\ hour < 17 THEN "Afternoon Pulse"
    ELSE IF hour >= 17 /\ hour < 21 THEN "Evening Reflection"
    ELSE IF hour >= 21 \/ hour < 5 THEN "Night Review"
    ELSE "Hourly Check-in"

bodies ==
    << "How are you feeling right now?",
       "Take a moment to check in with yourself",
       "Log this hour in your journey",
       "Quick reflection: How's this hour going?",
       "Capture this moment in your life reveal" >>

getHourlyNotificationBody(hour) == bodies[(hour % BodyCount) + 1]

----------------------------------------------------------------------------
(* The platform: expo-notifications *)

Undefined == "undefined"

\* Identifiers the platform hands out are opaque and fresh: different from
\* every identifier still pending at the platform or still held anywhere in
\* the program.  (The platform's UUIDs are never reused; an identifier nobody
\* holds any more cannot be told from a new one.)  An identifier is written
\* <<role, k>>: the role of the request it was handed out for and a serial
\* number.  The program never looks inside an identifier.
IdsOfSeq(seq) == {seq[k] : k \in 1..Len(seq)}

UsedIds ==
    {n.id : n \in scheduled}
      \cup {scheduledNotificationIds[k].id : k \in 1..Len(scheduledNotificationIds)}
      \cup IdsOfSeq(hourlyNotificationIds)
      \cup UNION {IdsOfSeq(tasks[i].arrFrozen) : i \in Slots}
      \cup UNION {{r[2] : r \in tasks[i].registered} : i \in Slots}
      \cup {tasks[i].curId : i \in Slots}

FreshId(role) ==
    LET used == {id \in UsedIds : id[1] = role}
    IN  <<role, CHOOSE k \in 1..(Cardinality(used) + 1) : <<role, k>> \notin used>>

\* Notifications.scheduleNotificationAsync({content, trigger}) as called by
\* scheduleHourlyNotification.
HourlyRequest(id, hour) ==
    [ id |-> id, type |-> "HOURLY_MICRO_LOG", snoozed |-> FALSE,
      title |-> getHourlyNotificationTitle(hour),
      body |-> getHourlyNotificationBody(hour),
      hour |-> hour, minute |-> 0, weekday |-> -1, seconds |-> -1, repeats |-> TRUE ]

\* The request NotificationService.scheduleNotification builds from a config.
ServiceRequest(id, type, title, time, weekday) ==
    [ id |-> id, type |-> type, snoozed |-> FALSE,
      title |-> title, body |-> "",
      hour |-> time[1], minute |-> time[2], weekday |-> weekday,
      seconds |-> -1, repeats |-> TRUE ]

\* The trigger of snoozeNotification(minutes).
snoozeSeconds_minutes(minutes) == minutes

snoozeSeconds(minutes) == minutes * 60

SnoozeRequest(id, minutes) ==
    [ id |-> id, type |-> "HOURLY_MICRO_LOG", snoozed |-> TRUE,
      title |-> "Snoozed Reminder", body |-> "Time to log your micro-entry!",
      hour |-> -1, minute |-> -1, weekday |-> -1,
      seconds |-> snoozeSeconds(minutes), repeats |-> FALSE ]

\* The config of scheduleMorningLog / scheduleEveningLog / scheduleWeeklyReview.
RoleRequest(id, role, settings) ==
    IF role = MorningRole
    THEN ServiceRequest(id, "MORNING_MICRO_LOG", "Good Morning!", settings.morningLogTime, -1)
    ELSE IF role = EveningRole
    THEN ServiceRequest(id, "EVENING_MICRO_LOG", "Evening Reflection", settings.eveningLogTime, -1)
    ELSE ServiceRequest(id, "WEEKLY_SUMMARY", "Weekly Review", settings.weeklyReviewTime,
                        settings.weeklyReviewDay)

\* The logical role a pending request plays.
RoleOf(n) ==
    IF n.snoozed THEN SnoozedRole
    ELSE IF n.type = "HOURLY_MICRO_LOG" THEN HourlyRole(n.hour)
    ELSE IF n.type = "MORNING_MICRO_LOG" THEN MorningRole
    ELSE IF n.type = "EVENING_MICRO_LOG" THEN EveningRole
    ELSE WeeklyRole

\* Notifications.cancelScheduledNotificationAsync(id), when it succeeds.
Cancelled(id) == {n \in scheduled : n.id # id}

\* Whether the platform call for this role may fail now.
MayFail(role) == failures < MaxFail /\ role \in FailableRoles

MayFailCancel(id) ==
    /\ failures < MaxFail
    /\ \E n \in scheduled : n.id = id /\ RoleOf(n) \in FailableRoles

----------------------------------------------------------------------------
(* Tasks *)

NoId == <<<<"none", -1>>, 0>>

IdleTask ==
    [ op |-> "idle", pc |-> "idle", via |-> "none",
      settings |-> NoSettings, now |-> -1,
      mapIdx |-> 0,
      arrShared |-> FALSE, arrFrozen |-> <<>>, arrIdx |-> 0,
      pending |-> <<>>, cur |-> <<"none", -1>>, curId |-> NoId,
      registered |-> {}, failed |-> {},
      registerCalls |-> 0, cancelCalls |-> 0,
      repeated |-> FALSE, startRoles |-> {},
      minutes |-> 0, hasPermission |-> FALSE, loaded |-> FALSE, saved |-> FALSE,
      quiet |-> FALSE, delivered |-> {},
      result |-> "pending" ]

InFlight(i) == tasks[i].pc \notin {"idle", "done"}
NoneInFlight == \A i \in Slots : ~InFlight(i)
FreeSlot(i) == ~InFlight(i) /\ \A j \in Slots : j < i => InFlight(j)

\* The scheduler's fields and the tasks, threaded through a step.
World == [m |-> scheduledNotificationIds, h |-> hourlyNotificationIds, t |-> tasks]

----------------------------------------------------------------------------
(* NotificationScheduler: what a task does between two awaited calls.      *)
(* Each operator takes the world and the task's slot and returns the world *)
(* at the task's next awaited call (or at its return).                     *)

\* The async method returns: Promise<void> resolves.
Finish(W, i) == [W EXCEPT !.t[i].pc = "done", !.t[i].result = Undefined, !.t[i].curId = NoId]

\* A platform call has thrown inside a try block: the catch logs the error
\* and the method goes on to Wnext.  Without the catch the error would
\* reject the promise of the async method.
catchAndLog_rethrow(W, i, Wnext) ==
    [W EXCEPT !.t[i].pc = "done", !.t[i].result = "rejected", !.t[i].curId = NoId]

catchAndLog(W, i, Wnext) == Wnext

\* notificationService.scheduleNotification(config): its first await is
\* this.requestPermissions().
GoService(W, i, role) == [W EXCEPT !.t[i].pc = "permission", !.t[i].cur = role]

GoWeekly_outsideQuietHours(W, i) ==
    IF /\ W.t[i].settings.weeklyReviewEnabled
       /\ ~isQuietHours(W.t[i].settings.weeklyReviewTime[1] * MinutesPerHour
                          + W.t[i].settings.weeklyReviewTime[2],
                        W.t[i].settings.quietHours)
    THEN GoService(W, i, WeeklyRole) ELSE Finish(W, i)

\* scheduleAllNotifications, "Schedule weekly review".
GoWeekly(W, i) ==
    IF W.t[i].settings.weeklyReviewEnabled THEN GoService(W, i, WeeklyRole) ELSE Finish(W, i)

GoEvening_afterMorningSkipped(W, i) ==
    IF W.t[i].settings.eveningLogEnabled /\ ~W.t[i].settings.morningLogEnabled
    THEN GoService(W, i, EveningRole) ELSE GoWeekly(W, i)

GoEvening(W, i) ==
    IF W.t[i].settings.eveningLogEnabled THEN GoService(W, i, EveningRole) ELSE GoWeekly(W, i)

GoMorning(W, i) ==
    IF W.t[i].settings.morningLogEnabled THEN GoService(W, i, MorningRole) ELSE GoEvening(W, i)

\* After scheduleMorningLog / scheduleEveningLog / scheduleWeeklyReview returns.
AfterService(W, i) ==
    IF W.t[i].cur = MorningRole THEN GoEvening(W, i)
    ELSE IF W.t[i].cur = EveningRole THEN GoWeekly(W, i)
    ELSE Finish(W, i)

\* scheduleHourlyNotifications after cancelHourlyNotifications: the loop calls
\* scheduleHourlyNotification for every hour it does not skip; each call runs
\* up to its await of scheduleNotificationAsync, so all the registrations are
\* outstanding when Promise.all is awaited.
GoHourlyLoop(W, i) ==
    IF ~W.t[i].settings.hourlyNotificationsEnabled THEN GoWeekly(W, i)
    ELSE LET hs == hoursToSchedule(W.t[i].now, W.t[i].settings.quietHours)
         IN  IF hs = <<>> THEN GoWeekly(W, i)
             ELSE [W EXCEPT !.t[i].pc = "hourlyRegister",
                            !.t[i].pending = hs,
                            !.t[i].registerCalls = @ + Len(hs)]

\* this.hourlyNotificationIds = []: the field gets a new array.  A loop of
\* another task that iterates the old array keeps the old array.
AssignEmptyHourly(W, i) ==
    [W EXCEPT !.h = <<>>,
              !.t = [j \in Slots |->
                       IF j # i /\ W.t[j].pc = "cancelHourly" /\ W.t[j].arrShared
                       THEN [W.t[j] EXCEPT !.arrShared = FALSE, !.arrFrozen = W.h]
                       ELSE IF j = i
                       THEN [W.t[j] EXCEPT !.arrShared = FALSE, !.arrFrozen = <<>>, !.arrIdx = 0,
                                           !.curId = NoId]
                       ELSE W.t[j]]]

GoCancelHourly_clearOnly(W, i) == GoHourlyLoop(AssignEmptyHourly(W, i), i)

\* cancelHourlyNotifications, entered from scheduleHourlyNotifications.
GoCancelHourly(W, i) ==
    IF Len(W.h) > 0
    THEN [W EXCEPT !.t[i].pc = "cancelHourly",
                   !.t[i].arrShared = TRUE, !.t[i].arrIdx = 1,
                   !.t[i].curId = W.h[1],
                   !.t[i].cancelCalls = @ + 1]
    ELSE GoHourlyLoop(AssignEmptyHourly(W, i), i)

\* The array the task's for-of loop iterates.
IterArray(W, i) == IF W.t[i].arrShared THEN W.h ELSE W.t[i].arrFrozen

NextHourlyCancel(W, i) ==
    LET arr == IterArray(W, i)
        k == W.t[i].arrIdx
    IN  IF k < Len(arr)
        THEN [W EXCEPT !.t[i].arrIdx = k + 1,
                       !.t[i].curId = arr[k + 1],
                       !.t[i].cancelCalls = @ + 1]
        ELSE GoHourlyLoop(AssignEmptyHourly(W, i), i)

\* scheduleAllNotifications after cancelAllScheduled.
GoAfterCancelAll_ignoreHourly(W, i) == GoMorning(W, i)

GoAfterCancelAll(W, i) ==
    IF W.t[i].settings.hourlyNotificationsEnabled THEN GoCancelHourly(W, i) ELSE GoMorning(W, i)

\* this.scheduledNotificationIds.clear(): an iterator of another task that
\* is still open goes on with the entries added after the clear.
ClearMap(W, i) ==
    [W EXCEPT !.m = <<>>,
              !.t = [j \in Slots |->
                       IF W.t[j].pc = "cancelMap" THEN [W.t[j] EXCEPT !.mapIdx = 0]
                       ELSE W.t[j]]]

\* cancelAllScheduled: the next entry of the map, or the clear after the loop.
NextMapCancel(W, i) ==
    LET k == W.t[i].mapIdx
    IN  IF k < Len(W.m)
        THEN [W EXCEPT !.t[i].pc = "cancelMap",
                       !.t[i].mapIdx = k + 1,
                       !.t[i].curId = W.m[k + 1].id,
                       !.t[i].cancelCalls = @ + 1]
        ELSE GoAfterCancelAll([ClearMap(W, i) EXCEPT !.t[i].pc = "run", !.t[i].mapIdx = 0,
                                                     !.t[i].curId = NoId], i)

\* Map.prototype.set: an existing key keeps its place.
MapSet(m, key, id) ==
    IF \E k \in 1..Len(m) : m[k].key = key
    THEN [k \in 1..Len(m) |-> IF m[k].key = key THEN [key |-> key, id |-> id] ELSE m[k]]
    ELSE Append(m, [key |-> key, id |-> id])

\* scheduleMorningLog / scheduleEveningLog / scheduleWeeklyReview after
\* notificationService.scheduleNotification: "if (id) ...set(key, id)"; the
\* service returns null when the platform call threw.
setIfScheduled_always(m, key, ok, id) == MapSet(m, key, id)

setIfScheduled(m, key, ok, id) == IF ok THEN MapSet(m, key, id) ELSE m

\* scheduleHourlyNotification, after its await: push the identifier, or
\* catch the error and log it.
pushIfScheduled_dropOnError(ids, ok, id) == IF ok THEN Append(ids, id) ELSE <<>>

pushIfScheduled(ids, ok, id) == IF ok THEN Append(ids, id) ELSE ids

\* The registrations of the hourly loop still outstanding after the oldest
\* has returned or thrown: the catch logs and schedules nothing again.
remainingAfter_retry(pending, ok) == IF ok THEN Tail(pending) ELSE pending

remainingAfter(pending, ok) == Tail(pending)

\* initializeNotifications: "if (!hasPermission) return".
initProceeds_always(hasPermission) == TRUE

initProceeds(hasPermission) == hasPermission

\* getNotificationSettings(): the stored value, or the default when nothing
\* is stored.
getNotificationSettings == IF stored = NoSettings THEN DEFAULT_NOTIFICATION_SETTINGS ELSE stored

\* NotificationService.requestPermissions(): the outcomes it can have.
\* An undetermined permission prompts the user, who grants or denies.
PermissionOutcomes ==
    IF permission = "undetermined" THEN {"granted", "denied"} ELSE {permission}

\* The roles that have a pending repeating request at the platform.
LiveRoles == {RoleOf(n) : n \in {x \in scheduled : x.repeats}}

\* The step of task i ends in world W.  saveAndReschedule's "finally" runs
\* when the pass it awaits returns: setIsSaving(false).
Commit(i, W) ==
    /\ scheduledNotificationIds' = W.m
    /\ hourlyNotificationIds' = W.h
    /\ tasks' = W.t
    /\ screen' = IF W.t[i].pc = "done" /\ W.t[i].via = "screen"
                 THEN [screen EXCEPT !.isSaving = FALSE] ELSE screen
    /\ UNCHANGED <<hook, writes>>

----------------------------------------------------------------------------
(* Actions *)

\* The app has started: nothing is scheduled, the scheduler is empty, both
\* components are mounted and have loaded the settings (loadSettings has set
\* the state to what getNotificationSettings() returned) and rendered them.
Start(storedAtStart) ==
    /\ scheduled = {}
    /\ permission = "undetermined"
    /\ stored = storedAtStart
    /\ scheduledNotificationIds = <<>>
    /\ hourlyNotificationIds = <<>>
    /\ tasks = [i \in Slots |-> IdleTask]
    /\ booted = FALSE
    /\ failures = 0
    /\ hook = [settings |-> getNotificationSettings, rendered |-> getNotificationSettings]
    /\ screen = [settings |-> getNotificationSettings, rendered |-> getNotificationSettings,
                 isSaving |-> FALSE, isSavingRendered |-> FALSE]
    /\ writes = 0

Init == Start(NoSettings)

\* Whether a pass with these settings follows, with no operation in between,
\* a finished pass with the same settings.
RepeatsLast(i, settings) ==
    /\ NoneInFlight
    /\ tasks[i].op = "pass" /\ tasks[i].pc = "done"
    /\ tasks[i].settings = settings

\* The task record of a scheduling pass that starts now in slot i.
NewPass(i, via, settings, now) ==
    [IdleTask EXCEPT
        !.op = "pass", !.pc = "run", !.via = via,
        !.settings = settings, !.now = now,
        !.repeated = RepeatsLast(i, settings),
        !.startRoles = IF RepeatsLast(i, settings) THEN LiveRoles ELSE {}]

\* scheduleAllNotifications(settings) / updateNotificationSchedule(settings),
\* called at clock time now: runs up to its first awaited platform call.
ScheduleAllNotifications(i, settings, now) ==
    /\ FreeSlot(i)
    /\ booted' = TRUE
    /\ Commit(i, NextMapCancel([World EXCEPT !.t[i] = NewPass(i, "api", settings, now)], i))
    /\ UNCHANGED <<scheduled, permission, stored, failures>>

\* notificationService.cancelNotification(id) returns in cancelAllScheduled.
CancelMapReturn(i, ok) ==
    /\ tasks[i].pc = "cancelMap"
    /\ ok \/ MayFailCancel(tasks[i].curId)
    /\ scheduled' = IF ok THEN Cancelled(tasks[i].curId) ELSE scheduled
    /\ failures' = IF ok THEN failures ELSE failures + 1
    /\ Commit(i, IF ok THEN NextMapCancel(World, i)
              ELSE catchAndLog(World, i, NextMapCancel(World, i)))
    /\ UNCHANGED <<permission, stored, booted>>

\* cancelScheduledNotificationAsync(id) returns or throws in
\* cancelHourlyNotifications.
CancelHourlyReturn(i, ok) ==
    /\ tasks[i].pc = "cancelHourly"
    /\ ok \/ MayFailCancel(tasks[i].curId)
    /\ scheduled' = IF ok THEN Cancelled(tasks[i].curId) ELSE scheduled
    /\ failures' = IF ok THEN failures ELSE failures + 1
    /\ Commit(i, IF ok THEN NextHourlyCancel(World, i)
              ELSE catchAndLog(World, i, NextHourlyCancel(World, i)))
    /\ UNCHANGED <<permission, stored, booted>>

\* scheduleNotificationAsync returns or throws in scheduleHourlyNotification,
\* for the oldest outstanding registration of the task.
HourlyRegisterReturn(i, ok) ==
    /\ tasks[i].pc = "hourlyRegister"
    /\ LET hour == Head(tasks[i].pending)
           id == FreshId(HourlyRole(hour))
           W1 == [World EXCEPT
                    !.h = pushIfScheduled(@, ok, id),
                    !.t[i].pending = remainingAfter(@, ok),
                    !.t[i].registered = IF ok THEN @ \cup {<<HourlyRole(hour), id>>} ELSE @,
                    !.t[i].failed = IF ok THEN @ ELSE @ \cup {HourlyRole(hour)}]
       IN  /\ ok \/ MayFail(HourlyRole(hour))
           /\ scheduled' = IF ok THEN scheduled \cup {HourlyRequest(id, hour)} ELSE scheduled
           /\ failures' = IF ok THEN failures ELSE failures + 1
           /\ LET Wnext == IF W1.t[i].pending = <<>> THEN GoWeekly(W1, i) ELSE W1
              IN  Commit(i, IF ok THEN Wnext ELSE catchAndLog(W1, i, Wnext))
    /\ UNCHANGED <<permission, stored, booted>>

\* requestPermissions() returns in notificationService.scheduleNotification.
PermissionReturn(i, outcome) ==
    /\ tasks[i].pc = "permission"
    /\ outcome \in PermissionOutcomes
    /\ permission' = outcome
    /\ Commit(i, IF outcome = "granted"
              THEN [World EXCEPT !.t[i].pc = "register", !.t[i].registerCalls = @ + 1]
              ELSE AfterService(World, i))
    /\ UNCHANGED <<scheduled, stored, booted, failures>>

\* scheduleNotificationAsync returns or throws in
\* notificationService.scheduleNotification; the scheduler stores the
\* identifier under the role's key when it is not null.
RegisterReturn(i, ok) ==
    /\ tasks[i].pc = "register"
    /\ LET role == tasks[i].cur
           id == FreshId(role)
           W1 == [World EXCEPT
                    !.m = setIfScheduled(@, role[1], ok, id),
                    !.t[i].registered = IF ok THEN @ \cup {<<role, id>>} ELSE @,
                    !.t[i].failed = IF ok THEN @ ELSE @ \cup {role}]
       IN  /\ ok \/ MayFail(role)
           /\ scheduled' = IF ok THEN scheduled \cup {RoleRequest(id, role, tasks[i].settings)}
                           ELSE scheduled
           /\ failures' = IF ok THEN failures ELSE failures + 1
           /\ Commit(i, IF ok THEN AfterService(W1, i)
                     ELSE catchAndLog(W1, i, AfterService(W1, i)))
    /\ UNCHANGED <<permission, stored, booted>>

\* initializeNotifications(), called once when the app starts.
InitializeNotifications(i) ==
    /\ ~booted
    /\ FreeSlot(i)
    /\ booted' = TRUE
    /\ tasks' = [tasks EXCEPT ![i] = [IdleTask EXCEPT !.op = "init", !.pc = "initPermission",
                                                        !.via = "init"]]
    /\ UNCHANGED <<scheduled, permission, stored, scheduledNotificationIds,
                   hourlyNotificationIds, failures, hook, screen, writes>>

\* requestPermissions() returns in initializeNotifications.
InitPermissionReturn(i, outcome) ==
    /\ tasks[i].pc = "initPermission"
    /\ outcome \in PermissionOutcomes
    /\ permission' = outcome
    /\ Commit(i, IF initProceeds(outcome = "granted")
              THEN [World EXCEPT !.t[i].pc = "initLoad", !.t[i].hasPermission = (outcome = "granted")]
              ELSE Finish(World, i))
    /\ UNCHANGED <<scheduled, stored, booted, failures>>

\* The argument of scheduleAllNotifications in initializeNotifications: the
\* settings it has just loaded.
initScheduleArgument_default(settings) == DEFAULT_NOTIFICATION_SETTINGS

initScheduleArgument(settings) == settings

\* getNotificationSettings() returns in initializeNotifications, which goes
\* on with scheduleAllNotifications(settings).
InitLoadReturn(i, now) ==
    /\ tasks[i].pc = "initLoad"
    /\ Commit(i, NextMapCancel(
                [World EXCEPT !.t[i] = [NewPass(i, "init",
                                                initScheduleArgument(getNotificationSettings), now)
                                           EXCEPT
                                           !.op = "init", !.loaded = TRUE,
                                           !.hasPermission = tasks[i].hasPermission]], i))
    /\ UNCHANGED <<scheduled, permission, stored, booted, failures>>

\* The snoozed reminders pending at the platform or being registered.
SnoozesOutstanding ==
    Cardinality({n \in scheduled : n.snoozed})
      + Cardinality({j \in Slots : tasks[j].pc = "snooze"})

\* snoozeNotification(minutes): runs up to its await of
\* scheduleNotificationAsync.
SnoozeNotification(i, minutes) ==
    /\ FreeSlot(i)
    /\ booted' = TRUE
    /\ tasks' = [tasks EXCEPT ![i] = [IdleTask EXCEPT !.op = "snooze", !.pc = "snooze",
                                                        !.via = "api", !.minutes = minutes,
                                                        !.cur = SnoozedRole,
                                                        !.registerCalls = 1]]
    /\ UNCHANGED <<scheduled, permission, stored, scheduledNotificationIds,
                   hourlyNotificationIds, failures, hook, screen, writes>>

\* The identifier of a snoozed reminder: the request carries none, so the
\* platform hands out a fresh one for every call.
snoozeIdentifier_fixed == <<SnoozedRole, 1>>

snoozeIdentifier == FreshId(SnoozedRole)

\* scheduleNotificationAsync returns or throws in snoozeNotification.
SnoozeReturn(i, ok) ==
    /\ tasks[i].pc = "snooze"
    /\ LET id == snoozeIdentifier
           W1 == [World EXCEPT !.t[i].registered = IF ok THEN @ \cup {<<SnoozedRole, id>>} ELSE @,
                               !.t[i].failed = IF ok THEN @ ELSE @ \cup {SnoozedRole}]
       IN  /\ ok \/ MayFail(SnoozedRole)
           /\ scheduled' = IF ok THEN scheduled \cup {SnoozeRequest(id, tasks[i].minutes)}
                           ELSE scheduled
           /\ failures' = IF ok THEN failures ELSE failures + 1
           /\ Commit(i, IF ok THEN Finish(W1, i) ELSE catchAndLog(W1, i, Finish(W1, i)))
    /\ UNCHANGED <<permission, stored, booted>>

\* NotificationType, and the messages table of sendTestNotification (titles
\* without their leading emoji).
NotificationTypes ==
    { "HOURLY_MICRO_LOG", "MORNING_MICRO_LOG", "EVENING_MICRO_LOG",
      "WEEKLY_SUMMARY", "REMINDER", "MONTHLY_REVIEW" }

testMessage(type) ==
    IF type = "HOURLY_MICRO_LOG"
    THEN [title |-> "Hourly Check-in (Test)",
          body |-> "This is a test of your hourly notification."]
    ELSE IF type = "MORNING_MICRO_LOG"
    THEN [title |-> "Good Morning! (Test)",
          body |-> "This is a test of your morning notification."]
    ELSE IF type = "EVENING_MICRO_LOG"
    THEN [title |-> "Evening Reflection (Test)",
          body |-> "This is a test of your evening notification."]
    ELSE IF type = "WEEKLY_SUMMARY"
    THEN [title |-> "Weekly Review (Test)",
          body |-> "This is a test of your weekly review notification."]
    ELSE IF type = "REMINDER"
    THEN [title |-> "Reminder (Test)",
          body |-> "This is a test reminder notification."]
    ELSE [title |-> "Monthly Review (Test)",
          body |-> "This is a test of your monthly review notification."]

\* The request of sendImmediateNotification: trigger null.
ImmediateRequest(id, title, body) ==
    [ id |-> id, type |-> "IMMEDIATE", snoozed |-> FALSE,
      title |-> title, body |-> body,
      hour |-> -1, minute |-> -1, weekday |-> -1, seconds |-> -1, repeats |-> FALSE ]

\* The requests pending at the platform after scheduleNotificationAsync with
\* trigger null has returned: the notification is presented at once and
\* nothing stays pending for it.
pendingAfterImmediate_kept(request) == scheduled \cup {request}

pendingAfterImmediate(request) == scheduled

\* sendTestNotification(type): looks up the message and calls
\* notificationService.sendImmediateNotification, which runs up to its await
\* of requestPermissions.
SendTestNotification(i, type) ==
    /\ FreeSlot(i)
    /\ booted' = TRUE
    /\ tasks' = [tasks EXCEPT ![i] = [IdleTask EXCEPT !.op = "test", !.pc = "testPermission",
                                                        !.via = "api",
                                                        !.cur = <<type, -1>>]]
    /\ UNCHANGED <<scheduled, permission, stored, scheduledNotificationIds,
                   hourlyNotificationIds, failures, hook, screen, writes>>

\* requestPermissions() returns in sendImmediateNotification.
TestPermissionReturn(i, outcome) ==
    /\ tasks[i].pc = "testPermission"
    /\ outcome \in PermissionOutcomes
    /\ permission' = outcome
    /\ Commit(i, IF outcome = "granted"
              THEN [World EXCEPT !.t[i].pc = "testSend", !.t[i].registerCalls = @ + 1,
                                 !.t[i].hasPermission = TRUE]
              ELSE Finish(World, i))
    /\ UNCHANGED <<scheduled, stored, booted, failures>>

\* scheduleNotificationAsync returns or throws in sendImmediateNotification.
TestSendReturn(i, ok) ==
    /\ tasks[i].pc = "testSend"
    /\ ok \/ failures < MaxFail
    /\ LET message == testMessage(tasks[i].cur[1])
           request == ImmediateRequest(FreshId(<<"immediate", -1>>), message.title, message.body)
           W1 == [World EXCEPT !.t[i].delivered = IF ok THEN @ \cup {request} ELSE @,
                               !.t[i].failed = IF ok THEN @ ELSE @ \cup {<<"immediate", -1>>}]
       IN  /\ scheduled' = IF ok THEN pendingAfterImmediate(request) ELSE scheduled
           /\ failures' = IF ok THEN failures ELSE failures + 1
           /\ Commit(i, IF ok THEN Finish(W1, i) ELSE catchAndLog(W1, i, Finish(W1, i)))
    /\ UNCHANGED <<permission, stored, booted>>

\* A snoozed reminder fires: a one-shot request leaves the platform.
SnoozedFires ==
    /\ \E n \in scheduled :
         /\ ~n.repeats
         /\ scheduled' = scheduled \ {n}
    /\ UNCHANGED <<permission, stored, scheduledNotificationIds, hourlyNotificationIds,
                   tasks, booted, failures, hook, screen, writes>>

----------------------------------------------------------------------------
(* The callers that write settings: the hook and the settings screen *)

\* { ...settings, ...newSettings } for a one-field partial, and
\* { ...settings, [key]: value }.
Merge(settings, key, value) == [settings EXCEPT ![key] = value]

\* The partial updates callers pass to the hook's updateSettings.
HookPartials == {<<"weeklyReviewEnabled", FALSE>>, <<"hourlyNotificationsEnabled", FALSE>>}

\* The switches of the screen that call updateSetting; each is disabled
\* while isSaving.
SwitchKeys == {"weeklyReviewEnabled"}

\* The snooze chips the user taps (of [5, 10, 15, 30, 60]).
ChipMinutes == {30}

\* A caller starts a write of settings in slot i: the task is suspended on
\* saveNotificationSettings.
NewWrite(i, via, settings) ==
    [tasks EXCEPT ![i] = [IdleTask EXCEPT !.op = "pass", !.pc = "save", !.via = via,
                                          !.settings = settings]]

CanWrite(i) == FreeSlot(i) /\ writes < MaxWrites

\* useNotificationSettings, updateSettings(newSettings): the callback merges
\* into the settings of the render that created it.
HookUpdateSettings(i, key, value) ==
    /\ CanWrite(i)
    /\ LET updatedSettings == Merge(hook.rendered, key, value)
       IN  /\ hook' = [hook EXCEPT !.settings = updatedSettings]
           /\ tasks' = NewWrite(i, "hook", updatedSettings)
    /\ writes' = writes + 1
    /\ booted' = TRUE
    /\ UNCHANGED <<scheduled, permission, stored, scheduledNotificationIds,
                   hourlyNotificationIds, failures, screen>>

\* useNotificationSettings, resetSettings().  Within the bound on writes the
\* reset is the last write of a behaviour.
HookResetSettings(i) ==
    /\ CanWrite(i)
    /\ writes = MaxWrites - 1
    /\ hook' = [hook EXCEPT !.settings = DEFAULT_NOTIFICATION_SETTINGS]
    /\ tasks' = NewWrite(i, "hook", DEFAULT_NOTIFICATION_SETTINGS)
    /\ writes' = writes + 1
    /\ booted' = TRUE
    /\ UNCHANGED <<scheduled, permission, stored, scheduledNotificationIds,
                   hourlyNotificationIds, failures, screen>>

\* The screen's updateSetting / updateQuietHours followed by
\* saveAndReschedule up to its first await: setSettings, setIsSaving(true).
ScreenWrite(i, updatedSettings) ==
    /\ CanWrite(i)
    /\ screen.rendered # NoSettings
    /\ screen' = [screen EXCEPT !.settings = updatedSettings, !.isSaving = TRUE]
    /\ tasks' = NewWrite(i, "screen", updatedSettings)
    /\ writes' = writes + 1
    /\ booted' = TRUE
    /\ UNCHANGED <<scheduled, permission, stored, scheduledNotificationIds,
                   hourlyNotificationIds, failures, hook>>

\* The user flips a switch: onValueChange gives the opposite of the value
\* shown.  The switch is disabled while the screen shows isSaving.
ScreenSwitch(i, key) ==
    /\ screen.rendered # NoSettings
    /\ ~screen.isSavingRendered
    /\ ScreenWrite(i, Merge(screen.rendered, key, ~screen.rendered[key]))

\* The user taps a snooze chip: shown when allowSnooze, never disabled.
ScreenSnoozeChip(i, minutes) ==
    /\ screen.rendered # NoSettings
    /\ screen.rendered.allowSnooze
    /\ ScreenWrite(i, Merge(screen.rendered, "snoozeDuration", minutes))

\* React renders a component again after its state changed: the callbacks
\* and the switches now see the new state.
HookRender ==
    /\ hook.rendered # hook.settings
    /\ hook' = [hook EXCEPT !.rendered = hook.settings]
    /\ UNCHANGED <<scheduled, permission, stored, scheduledNotificationIds,
                   hourlyNotificationIds, tasks, booted, failures, screen, writes>>

ScreenRender ==
    /\ screen.rendered # screen.settings \/ screen.isSavingRendered # screen.isSaving
    /\ screen' = [screen EXCEPT !.rendered = screen.settings,
                                !.isSavingRendered = screen.isSaving]
    /\ UNCHANGED <<scheduled, permission, stored, scheduledNotificationIds,
                   hourlyNotificationIds, tasks, booted, failures, hook, writes>>

\* The argument of updateNotificationSchedule / scheduleAllNotifications
\* after the save: the value that was saved, not what storage held before.
scheduleArgument_previous(updatedSettings, previous) ==
    IF previous = NoSettings THEN DEFAULT_NOTIFICATION_SETTINGS ELSE previous

scheduleArgument(updatedSettings, previous) == updatedSettings

\* saveNotificationSettings(settings) returns (it catches a storage error and
\* logs it); the caller goes on with updateNotificationSchedule /
\* scheduleAllNotifications, at clock time now.
SaveReturn(i, ok, now) ==
    /\ tasks[i].pc = "save"
    /\ ok \/ failures < MaxFail
    /\ stored' = IF ok THEN tasks[i].settings ELSE stored
    /\ failures' = IF ok THEN failures ELSE failures + 1
    /\ Commit(i, NextMapCancel(
                    [World EXCEPT !.t[i] = [NewPass(i, tasks[i].via,
                                                    scheduleArgument(tasks[i].settings, stored), now)
                                              EXCEPT !.saved = ok]], i))
    /\ UNCHANGED <<scheduled, permission, booted>>

\* A step of a scheduling pass that is suspended on a platform call.
PassStep ==
    \E i \in Slots :
        \/ \E ok \in BOOLEAN : CancelMapReturn(i, ok)
        \/ \E ok \in BOOLEAN : CancelHourlyReturn(i, ok)
        \/ \E ok \in BOOLEAN : HourlyRegisterReturn(i, ok)
        \/ \E outcome \in {"granted", "denied"} : PermissionReturn(i, outcome)
        \/ \E ok \in BOOLEAN : RegisterReturn(i, ok)

\* A step of initializeNotifications or snoozeNotification.
OtherStep ==
    \E i \in Slots :
        \/ \E outcome \in {"granted", "denied"} : InitPermissionReturn(i, outcome)
        \/ \E now \in ClockReads(getNotificationSettings) : InitLoadReturn(i, now)
        \/ \E ok \in BOOLEAN : SnoozeReturn(i, ok)

\* Serial use of the scheduler: a caller starts an operation only when no
\* other is in flight.
SerialCall ==
    /\ NoneInFlight
    /\ \E i \in Slots :
        \/ InitializeNotifications(i)
        \/ \E settings \in SettingsPool : \E now \in ClockReads(settings) :
              ScheduleAllNotifications(i, settings, now)
        \/ /\ SnoozesOutstanding < MaxSnooze
           /\ \E minutes \in SnoozeMinutes : SnoozeNotification(i, minutes)

Next == SerialCall \/ PassStep \/ OtherStep \/ SnoozedFires

Spec == Init /\ [][Next]_vars

\* The settings in storage when the app starts in SpecCoord: hourly check-ins
\* with a long quiet window, weekly review on.
StoredAtStart ==
    Cfg(TRUE, Quiet(TRUE, <<1, 0>>, <<23, 0>>), FALSE, FALSE, TRUE)

InitCoord == Start(StoredAtStart)

\* The user and the app's components act at any time.
CoordCall ==
    \/ \E i \in Slots :
        \/ \E p \in HookPartials : HookUpdateSettings(i, p[1], p[2])
        \/ HookResetSettings(i)
        \/ \E key \in SwitchKeys : ScreenSwitch(i, key)
        \/ \E minutes \in ChipMinutes : ScreenSnoozeChip(i, minutes)
    \/ HookRender
    \/ ScreenRender

\* In SpecCoord every pass that reads the clock runs at 03:00.
CoordClock(settings) == ClockReads(settings) \ {12 * 60}

SaveStep ==
    \E i \in Slots :
        /\ tasks[i].pc = "save"
        /\ \E ok \in BOOLEAN : \E now \in CoordClock(tasks[i].settings) : SaveReturn(i, ok, now)

NextCoord == CoordCall \/ SaveStep \/ PassStep

SpecCoord == InitCoord /\ [][NextCoord]_vars

----------------------------------------------------------------------------
(* isQuietHours on its own: one call per behaviour, for every minute of the *)
(* day the clock can show and every window of QuietWindows.                 *)

QuietTimes == {<<0, 0>>, <<8, 0>>, <<8, 30>>, <<20, 0>>, <<22, 0>>, <<22, 30>>}

QuietWindows ==
    {Quiet(enabled, startTime, endTime) :
        enabled \in BOOLEAN, startTime \in QuietTimes, endTime \in QuietTimes}

\* now.getHours() * 60 + now.getMinutes()
QuietClocks == 0..(HoursPerDay * MinutesPerHour - 1)

\* The call isQuietHours(quietHours) made when the clock shows currentMinutes.
IsQuietHoursCall(currentMinutes, quietHours) ==
    [IdleTask EXCEPT !.op = "isQuietHours", !.pc = "call", !.via = "api",
                     !.settings = [DEFAULT_NOTIFICATION_SETTINGS EXCEPT !.quietHours = quietHours],
                     !.now = currentMinutes]

InitQuiet ==
    /\ scheduled = {}
    /\ permission = "undetermined"
    /\ stored = NoSettings
    /\ scheduledNotificationIds = <<>>
    /\ hourlyNotificationIds = <<>>
    /\ \E currentMinutes \in QuietClocks : \E quietHours \in QuietWindows :
          tasks = [i \in Slots |-> IF i = 1 THEN IsQuietHoursCall(currentMinutes, quietHours)
                                   ELSE IdleTask]
    /\ booted = TRUE
    /\ failures = 0
    /\ hook = [settings |-> DEFAULT_NOTIFICATION_SETTINGS, rendered |-> DEFAULT_NOTIFICATION_SETTINGS]
    /\ screen = [settings |-> DEFAULT_NOTIFICATION_SETTINGS,
                 rendered |-> DEFAULT_NOTIFICATION_SETTINGS,
                 isSaving |-> FALSE, isSavingRendered |-> FALSE]
    /\ writes = 0

\* isQuietHours returns.
IsQuietHoursReturn(i) ==
    /\ tasks[i].op = "isQuietHours" /\ tasks[i].pc = "call"
    /\ tasks' = [tasks EXCEPT ![i].pc = "done",
                              ![i].quiet = isQuietHours(tasks[i].now, tasks[i].settings.quietHours)]
    /\ UNCHANGED <<scheduled, permission, stored, scheduledNotificationIds,
                   hourlyNotificationIds, booted, failures, hook, screen, writes>>

NextQuiet == \E i \in Slots : IsQuietHoursReturn(i)

SpecQuiet == InitQuiet /\ [][NextQuiet]_vars

----------------------------------------------------------------------------
(* Passes with a quiet window whose start equals its end, in serial use at   *)
(* clock times before, at and after the start.                              *)

EmptyWindowStarts == {<<0, 0>>, <<8, 0>>, <<22, 30>>}

EmptyWindowPool ==
    {Cfg(TRUE, Quiet(TRUE, t, t), FALSE, FALSE, TRUE) : t \in EmptyWindowStarts}

WindowClocks ==
    {0, 8 * 60 - 1, 8 * 60, 22 * 60 + 30, HoursPerDay * MinutesPerHour - 1}

WindowCall ==
    /\ NoneInFlight
    /\ \E i \in Slots : \E settings \in EmptyWindowPool : \E now \in WindowClocks :
          ScheduleAllNotifications(i, settings, now)

NextWindow == WindowCall \/ PassStep

SpecWindow == Init /\ [][NextWindow]_vars

----------------------------------------------------------------------------
(* Several snoozes in a row, with scheduling passes before, between and      *)
(* after them; no snoozed reminder comes due within a behaviour.             *)

MaxSnoozeCalls == 3     \* snoozed reminders that may be pending together here

\* Morning log and weekly review; hourly check-ins for the two hours outside
\* a long quiet window, and weekly review.
SnoozePool ==
    { Cfg(FALSE, Quiet(TRUE, <<22, 0>>, <<8, 0>>), TRUE, FALSE, TRUE),
      Cfg(TRUE, Quiet(TRUE, <<1, 0>>, <<23, 0>>), FALSE, FALSE, TRUE) }

SnoozeCall ==
    /\ NoneInFlight
    /\ \E i \in Slots :
        \/ \E settings \in SnoozePool : \E now \in CoordClock(settings) :
              ScheduleAllNotifications(i, settings, now)
        \/ /\ SnoozesOutstanding < MaxSnoozeCalls
           /\ \E minutes \in SnoozeMinutes : SnoozeNotification(i, minutes)

SnoozeStep == \E i \in Slots : \E ok \in BOOLEAN : SnoozeReturn(i, ok)

NextSnooze == SnoozeCall \/ SnoozeStep \/ PassStep

SpecSnooze == Init /\ [][NextSnooze]_vars

----------------------------------------------------------------------------
(* Start-up: initializeNotifications as the one operation of a behaviour,    *)
(* with nothing or some settings value in storage.                           *)

InitStoredPool ==
    { NoSettings,
      Cfg(FALSE, Quiet(TRUE, <<22, 0>>, <<8, 0>>), TRUE, TRUE, TRUE),
      Cfg(FALSE, Quiet(TRUE, <<22, 0>>, <<8, 0>>), FALSE, TRUE, FALSE),
      Cfg(TRUE, Quiet(TRUE, <<6, 0>>, <<20, 0>>), FALSE, FALSE, FALSE),
      Cfg(TRUE, Quiet(TRUE, <<22, 30>>, <<8, 30>>), TRUE, TRUE, TRUE),
      StoredAtStart }

InitStartup == \E storedAtStart \in InitStoredPool : Start(storedAtStart)

StartupCall == NoneInFlight /\ \E i \in Slots : InitializeNotifications(i)

StartupStep ==
    \E i \in Slots :
        \/ \E outcome \in {"granted", "denied"} : InitPermissionReturn(i, outcome)
        \/ \E now \in ClockReads(getNotificationSettings) : InitLoadReturn(i, now)

\* The scheduler is empty at start-up, so the cancel loops of the pass issue
\* no call: its awaited calls are the registrations.
StartupPassStep ==
    \E i \in Slots :
        \/ \E ok \in BOOLEAN : HourlyRegisterReturn(i, ok)
        \/ \E outcome \in {"granted", "denied"} : PermissionReturn(i, outcome)
        \/ \E ok \in BOOLEAN : RegisterReturn(i, ok)

NextStartup == StartupCall \/ StartupStep \/ StartupPassStep

SpecStartup == InitStartup /\ [][NextStartup]_vars

----------------------------------------------------------------------------
(* Scheduling passes in serial use on a platform whose calls all return,     *)
(* successfully or not.                                                      *)

PassCall ==
    /\ NoneInFlight
    /\ \E i \in Slots : \E settings \in SettingsPool : \E now \in ClockReads(settings) :
          ScheduleAllNotifications(i, settings, now)

NextPasses == PassCall \/ PassStep

\* Every awaited platform call returns or throws: a pass that is suspended
\* on one takes its next step.
SpecPasses == Init /\ [][NextPasses]_vars /\ WF_vars(PassStep)

----------------------------------------------------------------------------
(* Test notifications sent between scheduling passes and snoozes.            *)

TestCall ==
    /\ NoneInFlight
    /\ \E i \in Slots :
        \/ \E settings \in SnoozePool : \E now \in CoordClock(settings) :
              ScheduleAllNotifications(i, settings, now)
        \/ /\ SnoozesOutstanding < MaxSnooze
           /\ SnoozeNotification(i, DefaultSnooze)
        \/ \E type \in NotificationTypes : SendTestNotification(i, type)

TestStep ==
    \E i \in Slots :
        \/ \E outcome \in {"granted", "denied"} : TestPermissionReturn(i, outcome)
        \/ \E ok \in BOOLEAN : TestSendReturn(i, ok)

NextTest == TestCall \/ TestStep \/ SnoozeStep \/ PassStep

SpecTest == Init /\ [][NextTest]_vars

----------------------------------------------------------------------------
(* Scheduling passes in serial use on a platform whose cancel calls always   *)
(* succeed and whose register calls may fail.                                *)

CancelSucceedsPassStep ==
    \E i \in Slots :
        \/ CancelMapReturn(i, TRUE)
        \/ CancelHourlyReturn(i, TRUE)
        \/ \E ok \in BOOLEAN : HourlyRegisterReturn(i, ok)
        \/ \E outcome \in {"granted", "denied"} : PermissionReturn(i, outcome)
        \/ \E ok \in BOOLEAN : RegisterReturn(i, ok)

NextCancelSucceeds == PassCall \/ CancelSucceedsPassStep

SpecCancelSucceeds == Init /\ [][NextCancelSucceeds]_vars

----------------------------------------------------------------------------
(* One pass from an empty scheduler, for every combination of the four       *)
(* switches and quiet windows that contain all, some or none of the          *)
(* configured times 09:00, 19:00 and 21:00.                                  *)

SwitchWindows ==
    { Quiet(TRUE, <<6, 0>>, <<22, 0>>),
      Quiet(TRUE, <<20, 0>>, <<10, 0>>),
      Quiet(TRUE, <<22, 0>>, <<8, 0>>),
      Quiet(FALSE, <<6, 0>>, <<22, 0>>) }

SwitchPool ==
    { Cfg(hourly, quiet, morning, evening, weekly) :
        hourly \in BOOLEAN, quiet \in SwitchWindows,
        morning \in BOOLEAN, evening \in BOOLEAN, weekly \in BOOLEAN }

FirstPassCall ==
    /\ ~booted
    /\ \E i \in Slots : \E settings \in SwitchPool : \E now \in ClockReads(settings) :
          ScheduleAllNotifications(i, settings, now)

NextFirstPass == FirstPassCall \/ StartupPassStep

SpecFirstPass == Init /\ [][NextFirstPass]_vars

----------------------------------------------------------------------------
(* Properties *)

\* What the specification calls "within the quiet window": the window is
\* enabled and the minute of the day c lies in [start, end), or in
\* [start, 24:00) or [00:00, end) when the window spans midnight.
WithinWindow(c, quietHours) ==
    LET start == quietHours.startTime[1] * 60 + quietHours.startTime[2]
        end == quietHours.endTime[1] * 60 + quietHours.endTime[2]
    IN  /\ quietHours.enabled
        /\ \/ start <= end /\ start <= c /\ c < end
           \/ start > end /\ (c >= start \/ c < end)

WholeHourWindow(quietHours) == quietHours.startTime[2] = 0 /\ quietHours.endTime[2] = 0

\* A scheduling pass (on its own or run by initializeNotifications) that has
\* returned.
PassDone(i) ==
    /\ tasks[i].op \in {"pass", "init"}
    /\ tasks[i].pc = "done"
    /\ tasks[i].settings # NoSettings

\* The hourly roles task i has registered successfully.
HourlyRegistered(i) == {r[1] : r \in {x \in tasks[i].registered : x[1][1] = "hourly-log"}}

RegisteredIds(i) == {r[2] : r \in tasks[i].registered}

\* The identifiers of the repeating requests pending at the platform, and the
\* identifiers the scheduler holds.
RepeatingIds == {n.id : n \in {x \in scheduled : x.repeats}}

HeldIds ==
    {scheduledNotificationIds[k].id : k \in 1..Len(scheduledNotificationIds)}
      \cup IdsOfSeq(hourlyNotificationIds)

\* Every platform call so far has succeeded and the user has not refused
\* the permission.
PlatformReliable == failures = 0 /\ permission # "denied"

OneTriggerPerRole ==
    \A n1 \in scheduled : \A n2 \in scheduled :
        (n1.repeats /\ n2.repeats /\ RoleOf(n1) = RoleOf(n2)) => n1 = n2

\* C1: a completed pass with hourly notifications enabled and a whole-hour
\* quiet window, all of whose registrations succeeded, has registered an
\* hourly trigger for hour h iff h*60 is not within the quiet window,
\* whatever the wall-clock time of the pass.
HourlyTriggersAvoidQuietWindow ==
    \A i \in Slots :
        ( /\ PassDone(i)
          /\ PlatformReliable
          /\ tasks[i].settings.hourlyNotificationsEnabled
          /\ WholeHourWindow(tasks[i].settings.quietHours) )
        => HourlyRegistered(i) =
             {HourlyRole(h) : h \in {x \in Hours : ~WithinWindow(x * 60, tasks[i].settings.quietHours)}}

\* C2: in serial use with a platform that never fails, when a pass has
\* completed the repeating triggers live at the platform, and the identifiers
\* the scheduler holds, are exactly those the pass registered.
LastPassOwnsAllTriggers ==
    \A i \in Slots :
        (NoneInFlight /\ PassDone(i) /\ tasks[i].op = "pass" /\ PlatformReliable)
        => /\ RepeatingIds = RegisteredIds(i)
           /\ HeldIds = RegisteredIds(i)

\* C3: a pass that repeats the pass before it with the same settings, on a
\* platform that never fails, ends with the set of live roles it started
\* with, one live trigger per role.
RepeatedPassKeepsRoles ==
    \A i \in Slots :
        (PassDone(i) /\ tasks[i].repeated /\ PlatformReliable)
        => /\ LiveRoles = tasks[i].startRoles
           /\ OneTriggerPerRole

\* C4: isQuietHours, for the minute of the day c it evaluates, returns false
\* when the window is disabled; when start <= end, true iff start <= c < end;
\* when start > end, true iff c >= start or c < end.
IsQuietHoursMatchesWindow ==
    \A i \in Slots :
        (tasks[i].op = "isQuietHours" /\ tasks[i].pc = "done")
        => (tasks[i].quiet <=> WithinWindow(tasks[i].now, tasks[i].settings.quietHours))

\* C4 witness: the window 22:00-08:00 evaluated at 08:00 sharp is not quiet.
IsQuietHoursAtWindowEnd ==
    /\ tasks[1].op = "isQuietHours" /\ tasks[1].pc = "done"
    /\ tasks[1].settings.quietHours = Quiet(TRUE, <<22, 0>>, <<8, 0>>)
    /\ tasks[1].now = 8 * 60
    /\ ~tasks[1].quiet

\* The roles the specification's scheduling policy puts in the target set of
\* a settings value.
TargetRoles(settings) ==
    (IF settings.hourlyNotificationsEnabled
     THEN {HourlyRole(h) : h \in {x \in Hours : ~WithinWindow(x * 60, settings.quietHours)}}
     ELSE (IF settings.morningLogEnabled THEN {MorningRole} ELSE {})
            \cup (IF settings.eveningLogEnabled THEN {EveningRole} ELSE {}))
      \cup (IF settings.weeklyReviewEnabled THEN {WeeklyRole} ELSE {})

\* C5: once every rebuild started by the settings writes of the hook and the
\* screen has finished, there is at most one live trigger per role and the
\* live roles are the target set of the settings last written.
OneGenerationAfterWrites ==
    (writes > 0 /\ NoneInFlight /\ PlatformReliable)
    => /\ OneTriggerPerRole
       /\ LiveRoles = TargetRoles(stored)

\* The passes that are running: started and not yet returned.
PassesInFlight == {i \in Slots : tasks[i].op = "pass" /\ InFlight(i) /\ tasks[i].pc # "save"}

\* C6: at no time are two scheduling passes in flight at once.
RebuildsAreSerialized == Cardinality(PassesInFlight) <= 1

\* C7: after a pass, every notification whose registration succeeded in the
\* pass is active (pending at the platform under its role, its identifier
\* held by the scheduler), whichever other registrations of the pass failed.
SuccessfulRegistrationsStayActive ==
    \A i \in Slots :
        PassDone(i) =>
            \A r \in tasks[i].registered :
                /\ \E n \in scheduled : n.id = r[2] /\ RoleOf(n) = r[1] /\ n.repeats
                /\ r[2] \in HeldIds

\* C7 witness: a pass that asked for 10 hourly slots, lost hour 21 and has
\* the other 9 active.
NineOfTenHourlyActive ==
    /\ PassDone(1)
    /\ tasks[1].failed = {HourlyRole(21)}
    /\ Cardinality(HourlyRegistered(1)) = 9
    /\ Cardinality({n \in scheduled : n.type = "HOURLY_MICRO_LOG" /\ n.repeats}) = 9
    /\ Len(hourlyNotificationIds) = 9

\* The failed roles a caller can read from the value a pass returned.
ReportedFailures(result) == IF result = Undefined THEN {} ELSE result

\* C8: the value a pass returns to its caller identifies exactly the roles
\* of the target set whose registration failed.
PassResultNamesFailedRoles ==
    \A i \in Slots :
        PassDone(i) => ReportedFailures(tasks[i].result) = tasks[i].failed

\* C9: when the permission is denied at start-up, initializeNotifications
\* issues no register and no cancel call, does not load the settings, and
\* the scheduler's map and hourly list and the platform stay empty.
DeniedInitSchedulesNothing ==
    \A i \in Slots :
        (tasks[i].op = "init" /\ permission = "denied")
        => /\ tasks[i].registerCalls = 0
           /\ tasks[i].cancelCalls = 0
           /\ ~tasks[i].loaded
           /\ scheduledNotificationIds = <<>>
           /\ hourlyNotificationIds = <<>>
           /\ scheduled = {}

\* C9 witness: initializeNotifications has returned after a denial.
InitReturnedAfterDenial ==
    /\ tasks[1].op = "init" /\ tasks[1].pc = "done"
    /\ permission = "denied"

\* C10: snoozeNotification(m) issues one register call; when it returns the
\* platform has exactly one more request (none if the call failed), not
\* repeating and firing m*60 seconds later, and the scheduler's map, its
\* hourly list and every repeating request are as they were before the call.
SnoozeAddsOneShotOnly ==
    [][\A i \in Slots :
          /\ (tasks[i].pc # "snooze" /\ tasks'[i].pc = "snooze")
             => /\ tasks'[i].registerCalls = 1
                /\ scheduled' = scheduled
                /\ scheduledNotificationIds' = scheduledNotificationIds
                /\ hourlyNotificationIds' = hourlyNotificationIds
          /\ (tasks[i].pc = "snooze" /\ tasks'[i].pc = "done")
             => /\ scheduledNotificationIds' = scheduledNotificationIds
                /\ hourlyNotificationIds' = hourlyNotificationIds
                /\ scheduled \subseteq scheduled'
                /\ Cardinality(scheduled' \ scheduled) = (IF tasks'[i].failed = {} THEN 1 ELSE 0)
                /\ \A n \in scheduled' \ scheduled :
                      ~n.repeats /\ n.snoozed /\ n.seconds = tasks[i].minutes * 60
      ]_vars

\* C10 witness: a snooze of 15 minutes has returned while hourly triggers
\* are live and held by the scheduler.
SnoozedBesideHourly ==
    /\ tasks[1].op = "snooze" /\ tasks[1].pc = "done" /\ tasks[1].minutes = 15
    /\ \E n \in scheduled : n.snoozed /\ ~n.repeats /\ n.seconds = 900
    /\ hourlyNotificationIds # <<>>
    /\ \E n \in scheduled : n.repeats /\ n.id \in IdsOfSeq(hourlyNotificationIds)

\* A scheduling pass, running or returned.
IsPass(i) == tasks[i].op \in {"pass", "init"} /\ tasks[i].settings # NoSettings

\* C11: within a pass no cancel call is issued once a registration call has
\* been issued, and when the first registration call is issued a cancel has
\* been issued for every identifier of the previous generation, role-keyed
\* and hourly (the scheduler holds only identifiers the pass registered);
\* hence in serial use with a reliable platform no hour has two live triggers.
CancelsPrecedeRegistrations ==
    \A i \in Slots :
        IsPass(i) =>
            /\ tasks[i].pc \in {"cancelMap", "cancelHourly"} => tasks[i].registerCalls = 0
            /\ tasks[i].registerCalls > 0 => HeldIds \subseteq RegisteredIds(i)
            /\ failures = 0 => OneTriggerPerRole

\* The requests pending at the platform that task i registered.
RegisteredRequests(i) == {n \in scheduled : n.id \in RegisteredIds(i)}

\* The request the specification expects for a role of a pass without
\* hourly notifications: daily at the configured time, or weekly on the
\* configured day at the configured time.
ExpectedTrigger(n, settings) ==
    /\ n.repeats /\ ~n.snoozed
    /\ RoleOf(n) = MorningRole =>
          <<n.hour, n.minute, n.weekday>> =
              <<settings.morningLogTime[1], settings.morningLogTime[2], -1>>
    /\ RoleOf(n) = EveningRole =>
          <<n.hour, n.minute, n.weekday>> =
              <<settings.eveningLogTime[1], settings.eveningLogTime[2], -1>>
    /\ RoleOf(n) = WeeklyRole =>
          <<n.hour, n.minute, n.weekday>> =
              <<settings.weeklyReviewTime[1], settings.weeklyReviewTime[2],
                settings.weeklyReviewDay>>

\* C12: with permission granted and a platform that never fails, a completed
\* pass with hourly notifications disabled has registered exactly the morning
\* log if enabled, the evening log if enabled and the weekly review if
\* enabled, one trigger each, at the configured times.
NonHourlyPassRegistersEnabledRoles ==
    \A i \in Slots :
        ( /\ PassDone(i)
          /\ NoneInFlight
          /\ failures = 0 /\ permission = "granted"
          /\ ~tasks[i].settings.hourlyNotificationsEnabled )
        => /\ {r[1] : r \in tasks[i].registered} =
                (IF tasks[i].settings.morningLogEnabled THEN {MorningRole} ELSE {})
                  \cup (IF tasks[i].settings.eveningLogEnabled THEN {EveningRole} ELSE {})
                  \cup (IF tasks[i].settings.weeklyReviewEnabled THEN {WeeklyRole} ELSE {})
           /\ tasks[i].registerCalls = Cardinality(tasks[i].registered)
           /\ Cardinality(RegisteredRequests(i)) = Cardinality(tasks[i].registered)
           /\ \A n \in RegisteredRequests(i) : ExpectedTrigger(n, tasks[i].settings)

\* C12 witness: from an empty scheduler the pass with morning 09:00, evening
\* 21:00 and weekly review on day 0 at 19:00 has left exactly three triggers.
ThreeTriggersFromEmpty ==
    /\ PassDone(1)
    /\ tasks[1].settings = Cfg(FALSE, Quiet(TRUE, <<22, 0>>, <<8, 0>>), TRUE, TRUE, TRUE)
    /\ tasks[1].cancelCalls = 0
    /\ Cardinality(scheduled) = 3
    /\ {<<RoleOf(n), n.hour, n.minute, n.weekday>> : n \in scheduled} =
          { <<MorningRole, 9, 0, -1>>, <<EveningRole, 21, 0, -1>>, <<WeeklyRole, 19, 0, 0>> }

\* C13: scheduleAllNotifications, updateNotificationSchedule and
\* snoozeNotification never reject, whichever register and cancel calls of
\* the platform fail: a call that has returned has resolved.
EngineNeverRejects ==
    \A i \in Slots :
        /\ tasks[i].result # "rejected"
        /\ (tasks[i].op \in {"pass", "init", "snooze"} /\ tasks[i].pc = "done")
           => tasks[i].result = Undefined

\* C13 witness: a pass has returned normally although one of its
\* registration calls failed.
PassResolvedAfterFailure ==
    /\ PassDone(1)
    /\ tasks[1].failed # {}
    /\ failures > 0
    /\ tasks[1].result = Undefined

\* Task i leaves saveNotificationSettings in this step, the write having
\* succeeded.
WriteCompletes(i) == tasks[i].pc = "save" /\ tasks'[i].pc # "save" /\ tasks'[i].saved

\* C14: when a settings write of the hook or the screen has been persisted,
\* the writer starts one scheduling pass, in the step in which the write
\* completes, with exactly the settings value written; no other pass starts
\* then, storage changes only in such a step, and a pass never starts
\* without a write before it.
OnePassAfterEveryWrite ==
    [][ /\ \A i \in Slots :
             WriteCompletes(i)
             => /\ stored' = tasks[i].settings
                /\ tasks'[i].op = "pass" /\ tasks'[i].pc # "idle"
                /\ tasks'[i].settings = tasks[i].settings
                /\ \A j \in Slots \ {i} :
                      tasks[j].pc = "save" <=> tasks'[j].pc = "save"
        /\ stored' # stored => \E i \in Slots : WriteCompletes(i)
        /\ \A i \in Slots :
             tasks[i].pc \in {"idle", "done"} => tasks'[i].pc \in {"idle", "done", "save"}
      ]_vars

\* C14 witness: a write of the screen has been persisted and the pass it
\* started is running with the stored settings.
PassRunningOnWrittenSettings ==
    \E i \in Slots :
        /\ tasks[i].op = "pass" /\ tasks[i].via = "screen" /\ tasks[i].saved
        /\ tasks[i].pc \in {"cancelMap", "cancelHourly", "hourlyRegister", "permission", "register"}
        /\ stored = tasks[i].settings
        /\ stored # StoredAtStart

\* The hourly requests pending at the platform.
HourlyRequests == {n \in scheduled : n.type = "HOURLY_MICRO_LOG" /\ ~n.snoozed}

\* C15: the title of the hourly notification for hour h is the morning title
\* iff 5 <= h < 12, the afternoon title iff 12 <= h < 17, the evening title
\* iff 17 <= h < 21 and the night title otherwise, never the fallback; its
\* body is the element at index h mod 5 of the fixed list; title and body
\* are thus fixed by the hour alone.
HourlyContentFollowsHour ==
    \A n \in HourlyRequests :
        LET h == n.hour
            list == << "How are you feeling right now?",
                       "Take a moment to check in with yourself",
                       "Log this hour in your journey",
                       "Quick reflection: How's this hour going?",
                       "Capture this moment in your life reveal" >>
        IN  /\ h \in 0..23
            /\ n.title = "Morning Check-in" <=> (5 <= h /\ h < 12)
            /\ n.title = "Afternoon Pulse" <=> (12 <= h /\ h < 17)
            /\ n.title = "Evening Reflection" <=> (17 <= h /\ h < 21)
            /\ n.title = "Night Review" <=> (h < 5 \/ h >= 21)
            /\ n.title # "Hourly Check-in"
            /\ n.body = list[(h % 5) + 1]

\* C15 witness: hourly notifications for all 24 hours are pending, two of
\* them for hour 21 (one left behind by a failed cancel).
AllHoursHaveContent ==
    /\ {n.hour : n \in HourlyRequests} = 0..23
    /\ Cardinality({n \in HourlyRequests : n.hour = 21}) = 2

\* C16: while the notification permission is denied no scheduling pass has a
\* registration call at the platform, whatever its settings.
NoRegistrationWhileDenied ==
    permission = "denied" =>
        \A i \in Slots :
            IsPass(i) => tasks[i].pc \notin {"hourlyRegister", "register"}

\* C17: a pass has at most one registration call outstanding at any moment.
RegistrationsOneAtATime ==
    \A i \in Slots :
        IsPass(i) =>
            /\ Len(tasks[i].pending) <= 1
            /\ tasks[i].pc = "register" => tasks[i].pending = <<>>

\* The roles task i has asked the platform to register or is about to.
RolesTouched(i) ==
    {r[1] : r \in tasks[i].registered} \cup tasks[i].failed
      \cup (IF tasks[i].pc \in {"permission", "register"} THEN {tasks[i].cur} ELSE {})

\* C18: a pass with hourly notifications enabled registers no morning log
\* and no evening log, even when both are enabled; morning and evening logs
\* are registered only by passes with hourly notifications disabled.
HourlyTakesPriority ==
    \A i \in Slots :
        IsPass(i) =>
            /\ tasks[i].settings.hourlyNotificationsEnabled
               => RolesTouched(i) \cap {MorningRole, EveningRole} = {}
            /\ RolesTouched(i) \cap {MorningRole, EveningRole} # {}
               => ~tasks[i].settings.hourlyNotificationsEnabled

\* C18 witness: a pass with hourly, morning, evening and weekly all enabled
\* has returned having registered hourly triggers and the weekly review.
HourlyPassWithMorningEnabledDone ==
    /\ PassDone(1)
    /\ tasks[1].settings.hourlyNotificationsEnabled
    /\ tasks[1].settings.morningLogEnabled /\ tasks[1].settings.eveningLogEnabled
    /\ permission = "granted" /\ failures = 0
    /\ {r[1] : r \in tasks[1].registered} = HourlyRegistered(1) \cup {WeeklyRole}
    /\ HourlyRegistered(1) # {}

\* C19: for a quiet window whose start or end has minutes (22:30-08:30), a
\* pass run inside the window with a reliable platform registers hour h iff
\* h*60 is outside the window in minutes since midnight: hour 22 is
\* registered, hour 8 is not.
SuppressionComparesMinutes ==
    \A i \in Slots :
        ( /\ PassDone(i)
          /\ PlatformReliable
          /\ tasks[i].settings.hourlyNotificationsEnabled
          /\ ~WholeHourWindow(tasks[i].settings.quietHours)
          /\ WithinWindow(tasks[i].now, tasks[i].settings.quietHours) )
        => HourlyRegistered(i) =
             {HourlyRole(h) : h \in {x \in Hours : ~WithinWindow(x * 60, tasks[i].settings.quietHours)}}

\* C20: with quiet hours enabled and start equal to end, a pass with hourly
\* notifications enabled run at any clock time on a reliable platform
\* registers hourly triggers for all 24 hours and returns normally.
EmptyWindowSuppressesNothing ==
    \A i \in Slots :
        ( /\ PassDone(i)
          /\ failures = 0
          /\ tasks[i].settings.hourlyNotificationsEnabled
          /\ tasks[i].settings.quietHours.enabled
          /\ tasks[i].settings.quietHours.startTime = tasks[i].settings.quietHours.endTime )
        => /\ HourlyRegistered(i) = {HourlyRole(h) : h \in 0..23}
           /\ Cardinality({n \in scheduled : n.id \in RegisteredIds(i)
                                              /\ n.type = "HOURLY_MICRO_LOG"}) = 24
           /\ tasks[i].result = Undefined

\* C20 witness: the window 08:00-08:00, pass run at 08:00 sharp, 24 hourly
\* triggers registered.
EmptyWindowPassAtStart ==
    /\ PassDone(1)
    /\ failures = 0
    /\ tasks[1].settings.quietHours = Quiet(TRUE, <<8, 0>>, <<8, 0>>)
    /\ tasks[1].now = 8 * 60
    /\ Cardinality(HourlyRegistered(1)) = 24
    /\ tasks[1].cancelCalls > 0

\* A pass that has left its cancel loops: it is registering or has returned.
PastCancels(i) ==
    IsPass(i) /\ tasks[i].pc \in {"hourlyRegister", "permission", "register", "done"}

\* C21: the cancel phase of a pass issues its cancel calls one per stored
\* identifier, in order, whether or not earlier ones failed; once the pass is
\* past it the scheduler holds none of the identifiers stored before (only
\* ones the pass registered), so an identifier whose cancel failed is no
\* longer held and no cancel call is ever outstanding for it again.
CancelAllDropsEveryIdentifier ==
    \A i \in Slots :
        /\ (IsPass(i) /\ tasks[i].pc = "cancelMap")
           => /\ tasks[i].cancelCalls = tasks[i].mapIdx
              /\ tasks[i].curId = scheduledNotificationIds[tasks[i].mapIdx].id
        /\ (IsPass(i) /\ tasks[i].pc = "cancelHourly")
           => /\ tasks[i].curId = hourlyNotificationIds[tasks[i].arrIdx]
              /\ tasks[i].cancelCalls >= tasks[i].arrIdx
        /\ PastCancels(i) => HeldIds \subseteq RegisteredIds(i)
        /\ InFlight(i) /\ tasks[i].pc \in {"cancelMap", "cancelHourly"}
           => tasks[i].curId \in HeldIds

\* The snoozed reminders pending at the platform.
SnoozedPending == {n \in scheduled : n.snoozed}

\* C22: every snoozeNotification call that succeeds adds one snoozed trigger
\* beside those already pending (none is replaced, whatever their minutes),
\* so n successful calls leave n pending; and no step of a scheduling pass
\* removes a pending snoozed trigger or holds its identifier.
SnoozesAccumulate ==
    [][ /\ SnoozedPending \subseteq scheduled'
        /\ \A i \in Slots :
             (tasks[i].pc = "snooze" /\ tasks'[i].pc = "done" /\ tasks'[i].failed = {})
             => Cardinality({n \in scheduled' : n.snoozed}) = Cardinality(SnoozedPending) + 1
        /\ \A i \in Slots :
             tasks'[i].pc \in {"cancelMap", "cancelHourly"}
             => \A n \in SnoozedPending : n.id # tasks'[i].curId
        /\ \A n \in SnoozedPending : n.id \notin HeldIds
      ]_vars

\* C22 witness: three snoozed reminders, two of them for the same 15 minutes,
\* are pending after a pass that cancelled the previous generation returned.
ThreeSnoozesSurvivePass ==
    /\ PassDone(1)
    /\ tasks[1].cancelCalls > 0
    /\ tasks[1].registered # {}
    /\ Cardinality(SnoozedPending) = 3
    /\ Cardinality({n \in SnoozedPending : n.seconds = 15 * 60}) = 2

\* The roles of the requests pending at the platform.
PendingRoles == {RoleOf(n) : n \in scheduled}

\* C23: in initializeNotifications nothing is loaded, cancelled or registered
\* while the permission check is outstanding or after a denial; no cancel or
\* register call is issued before the settings are loaded; and when the
\* permission was granted one pass runs, with the settings the settings store
\* returns: every role gets at most one register call and what is pending
\* when it returns is what that one pass registered.
StartupIsOrdered ==
    \A i \in Slots :
        tasks[i].op = "init" =>
            /\ tasks[i].pc = "initPermission" => ~tasks[i].hasPermission /\ ~tasks[i].loaded
            /\ tasks[i].loaded => tasks[i].hasPermission /\ permission = "granted"
            /\ ~tasks[i].loaded
               => /\ tasks[i].cancelCalls = 0 /\ tasks[i].registerCalls = 0
                  /\ scheduled = {}
                  /\ tasks[i].settings = NoSettings
            /\ tasks[i].loaded => tasks[i].settings = getNotificationSettings
            /\ (tasks[i].pc = "done" /\ permission = "granted")
               => /\ tasks[i].loaded
                  /\ tasks[i].registerCalls
                       = Cardinality(tasks[i].registered) + Cardinality(tasks[i].failed)
                  /\ Cardinality({r[1] : r \in tasks[i].registered})
                       = Cardinality(tasks[i].registered)
                  /\ {r[1] : r \in tasks[i].registered} \cap tasks[i].failed = {}
                  /\ {n.id : n \in scheduled} = RegisteredIds(i)
                  /\ tasks[i].cancelCalls = 0

\* C23 witness: start-up with stored settings other than the default has
\* returned, the permission granted, the three stored roles registered.
StartupRanStoredSettings ==
    /\ tasks[1].op = "init" /\ tasks[1].pc = "done"
    /\ permission = "granted"
    /\ stored = Cfg(FALSE, Quiet(TRUE, <<22, 0>>, <<8, 0>>), TRUE, TRUE, TRUE)
    /\ tasks[1].settings = stored
    /\ PendingRoles = {MorningRole, EveningRole, WeeklyRole}

\* The registration calls of task i that have not returned yet.
OutstandingRegistrations(i) ==
    IF tasks[i].pc = "hourlyRegister" THEN Len(tasks[i].pending)
    ELSE IF tasks[i].pc = "register" THEN 1 ELSE 0

\* C24: in one pass every role receives at most one register call (each call
\* issued is outstanding, has succeeded or has failed, for a role of its own;
\* a role that failed is not registered later in the pass), and a pass whose
\* platform calls all return eventually returns.
NoRetryAndPassCompletes ==
    /\ [](\A i \in Slots :
            IsPass(i) =>
                /\ tasks[i].registerCalls
                     = Cardinality(tasks[i].registered) + Cardinality(tasks[i].failed)
                         + OutstandingRegistrations(i)
                /\ Cardinality({r[1] : r \in tasks[i].registered})
                     = Cardinality(tasks[i].registered)
                /\ {r[1] : r \in tasks[i].registered} \cap tasks[i].failed = {}
                /\ tasks[i].pc = "hourlyRegister"
                   => /\ Cardinality(IdsOfSeq(tasks[i].pending)) = Len(tasks[i].pending)
                      /\ \A h \in IdsOfSeq(tasks[i].pending) :
                            HourlyRole(h) \notin RolesTouched(i))
    /\ (\E i \in Slots : IsPass(i) /\ InFlight(i))
         ~> (NoneInFlight /\ \E i \in Slots : PassDone(i))

\* C24 witness: a pass asked for the morning log, the evening log and the
\* weekly review with three register calls; the morning log failed and the
\* pass has returned with the other two registered.
PassDoneWithoutRetry ==
    /\ PassDone(1)
    /\ tasks[1].registerCalls = 3
    /\ tasks[1].failed = {MorningRole}
    /\ {r[1] : r \in tasks[1].registered} = {EveningRole, WeeklyRole}
    /\ MorningRole \notin PendingRoles

\* C25: every step of sendTestNotification leaves the role map, the hourly
\* list and the requests pending at the platform as they were; when it
\* returns it has issued at most one notification request, exactly one
\* (immediate, not repeating, with the test message of its type) when the
\* permission is granted and the call succeeds.
TestNotificationBypassesSchedule ==
    [][\A i \in Slots :
          (tasks'[i].op = "test" /\ tasks'[i] # tasks[i])
          => /\ scheduled' = scheduled
             /\ scheduledNotificationIds' = scheduledNotificationIds
             /\ hourlyNotificationIds' = hourlyNotificationIds
             /\ tasks'[i].cancelCalls = 0
             /\ tasks'[i].registerCalls <= 1
             /\ tasks'[i].pc = "done"
                => /\ Cardinality(tasks'[i].delivered)
                        = (IF permission' = "granted" /\ tasks'[i].failed = {} THEN 1 ELSE 0)
                   /\ \A d \in tasks'[i].delivered :
                         /\ ~d.repeats /\ ~d.snoozed
                         /\ <<d.hour, d.minute, d.weekday, d.seconds>> = <<-1, -1, -1, -1>>
                         /\ d.title = testMessage(tasks[i].cur[1]).title
                         /\ d.body = testMessage(tasks[i].cur[1]).body
      ]_vars

\* C25 witness: a weekly-review test notification has been delivered while
\* hourly triggers, the weekly review and a snoozed reminder are pending.
TestSentBesideSchedule ==
    /\ tasks[1].op = "test" /\ tasks[1].pc = "done"
    /\ \E d \in tasks[1].delivered : d.title = "Weekly Review (Test)"
    /\ hourlyNotificationIds # <<>>
    /\ scheduledNotificationIds # <<>>
    /\ SnoozedPending # {}
    /\ Cardinality(scheduled) = Len(hourlyNotificationIds) + Len(scheduledNotificationIds) + 1

\* C26: in serial use with cancel calls that always succeed, whenever no
\* pass is in flight every repeating request pending at the platform has its
\* identifier in the role map or in the hourly list, whichever register
\* calls failed.
NoOrphanedTriggers ==
    NoneInFlight => RepeatingIds \subseteq HeldIds

\* C26 witness: a pass with hourly notifications disabled has returned, its
\* morning-log registration failed; the hourly triggers of the pass before
\* it are still pending and still in the hourly list.
StaleHourlyStillHeld ==
    /\ NoneInFlight
    /\ PassDone(1)
    /\ ~tasks[1].settings.hourlyNotificationsEnabled
    /\ tasks[1].failed = {MorningRole}
    /\ tasks[1].cancelCalls > 0
    /\ Len(hourlyNotificationIds) = 24
    /\ \A k \in 1..24 : hourlyNotificationIds[k] \in RepeatingIds
    /\ WeeklyRole \in LiveRoles

\* C27: a pass started by a settings write of the hook or the screen runs
\* only when the write was persisted, and when a single settings update has
\* finished the pass it ran was given the settings value that storage holds.
PassesRunOnStoredSettings ==
    \A i \in Slots :
        (tasks[i].op = "pass" /\ tasks[i].via \in {"hook", "screen"}
                              /\ tasks[i].pc \notin {"idle", "save"})
        => /\ tasks[i].saved
           /\ (writes = 1 /\ tasks[i].pc = "done") => tasks[i].settings = stored

\* The settings fields the hook's partial updates and the screen's controls
\* write in the model.
WrittenFields == {"hourlyNotificationsEnabled", "weeklyReviewEnabled", "snoozeDuration"}

\* C28: when a second partial update is issued through the same component
\* while the first is still in flight, the value the second saves and passes
\* to its pass contains every change the first made to the settings loaded
\* at start, and so does storage once both have finished.
NoLostSettingsUpdate ==
    ( /\ writes = 2
      /\ \A i \in {1, 2} : tasks[i].op = "pass" /\ tasks[i].via \in {"hook", "screen"}
      /\ tasks[1].via = tasks[2].via
      /\ tasks[2].settings # DEFAULT_NOTIFICATION_SETTINGS )
    => \A f \in WrittenFields :
          tasks[1].settings[f] # StoredAtStart[f]
          => /\ tasks[2].settings[f] = tasks[1].settings[f]
             /\ (NoneInFlight /\ failures = 0) => stored[f] = tasks[1].settings[f]

\* The morning, evening and weekly roles the switches of a settings value
\* select.
SwitchedRoles(settings) ==
    (IF ~settings.hourlyNotificationsEnabled /\ settings.morningLogEnabled
     THEN {MorningRole} ELSE {})
      \cup (IF ~settings.hourlyNotificationsEnabled /\ settings.eveningLogEnabled
            THEN {EveningRole} ELSE {})
      \cup (IF settings.weeklyReviewEnabled THEN {WeeklyRole} ELSE {})

\* C29: with the permission not refused and no failing call, the morning-log,
\* evening-log and weekly-review triggers a completed pass has registered are
\* those its four switches select, each at its configured time, whatever the
\* quiet window and the clock, also when the time lies inside the window.
QuietHoursLeaveOtherRolesAlone ==
    \A i \in Slots :
        (PassDone(i) /\ PlatformReliable)
        => /\ {r[1] : r \in tasks[i].registered} \ HourlyRegistered(i)
                = SwitchedRoles(tasks[i].settings)
           /\ \A n \in RegisteredRequests(i) : ExpectedTrigger(n, tasks[i].settings)

\* C29 witness: with hourly notifications disabled and the quiet window
\* 06:00-22:00 the morning log (09:00), the evening log (21:00) and the
\* weekly review (19:00), all inside the window, are registered.
AllThreeInsideQuietWindow ==
    /\ PassDone(1)
    /\ PlatformReliable
    /\ ~tasks[1].settings.hourlyNotificationsEnabled
    /\ tasks[1].settings.quietHours = Quiet(TRUE, <<6, 0>>, <<22, 0>>)
    /\ \A n \in scheduled : WithinWindow(n.hour * 60 + n.minute, tasks[1].settings.quietHours)
    /\ {<<RoleOf(n), n.hour>> : n \in scheduled}
          = {<<MorningRole, 9>>, <<EveningRole, 21>>, <<WeeklyRole, 19>>}

\* C30: the role map has one entry per key and the hourly list holds no
\* identifier twice; an identifier enters the map or the list only in a step
\* in which the platform accepts a request with that identifier, under the
\* key of its role; and a step in which a platform call fails stores no
\* identifier.
OnlySuccessfulRegistrationsStored ==
    [][ /\ \A k1, k2 \in 1..Len(scheduledNotificationIds) :
             ( \/ scheduledNotificationIds[k1].key = scheduledNotificationIds[k2].key
               \/ scheduledNotificationIds[k1].id = scheduledNotificationIds[k2].id )
             => k1 = k2
        /\ Cardinality(IdsOfSeq(hourlyNotificationIds)) = Len(hourlyNotificationIds)
        /\ HeldIds' \ HeldIds \subseteq {n.id : n \in scheduled' \ scheduled}
        /\ \A k \in 1..Len(scheduledNotificationIds') :
             scheduledNotificationIds'[k].id \notin HeldIds
             => \E n \in scheduled' \ scheduled :
                   /\ n.id = scheduledNotificationIds'[k].id
                   /\ RoleOf(n)[1] = scheduledNotificationIds'[k].key
        /\ failures' # failures => HeldIds' \subseteq HeldIds
      ]_vars

\* C30 witness: a pass asked for 24 hourly slots and the weekly review; hour
\* 21 failed; the hourly list holds the other 23 identifiers and the map the
\* weekly review's.
TwentyThreeStoredAfterFailure ==
    /\ PassDone(1)
    /\ tasks[1].failed = {HourlyRole(21)}
    /\ Len(hourlyNotificationIds) = 23
    /\ IdsOfSeq(hourlyNotificationIds) \cup {scheduledNotificationIds[k].id :
                                               k \in 1..Len(scheduledNotificationIds)}
          = RegisteredIds(1)
    /\ Len(scheduledNotificationIds) = 1
    /\ scheduledNotificationIds[1].key = "weekly-review"

====
